---- MODULE Spec2Model ----
(***************************************************************************)
(* Adaptive confidence tracking and topic selection of the quiz platform.  *)
(*                                                                         *)
(* Three stores hold confidence scores in the repository:                  *)
(*   - the SQLite tables student_progress / quiz_history, written by       *)
(*     ProgressService.update_student_progress (progress_service.py) on    *)
(*     behalf of student_interface.display_quiz;                           *)
(*   - the JSON progress file of main_quiz.py, written per question by     *)
(*     update_confidence_score (main_quiz.main, app.py);                   *)
(*   - the dict handed to get_next_quiz_topic / min(...).                  *)
(*                                                                         *)
(* Scores are Python floats in the code.  Here a score is an exact         *)
(* rational kept as an integer number of 1/Scale units, Scale chosen so    *)
(* that every value the update formulas produce within the bounds is an    *)
(* integer.  Floating-point rounding error is not modelled.                *)
(***************************************************************************)
EXTENDS Integers, Sequences, FiniteSets, Bags, TLC

(***************************************************************************)
(* Bounds of the model.                                                    *)
(***************************************************************************)
\* most questions in one generated quiz
MaxQuizLen == 2
\* most rows of quiz_history, that is, most update_student_progress calls
MaxHistory == 2
\* most attempts of the record in the pure-policy specification
MaxAttempts == 4

Students == {1, 2}
Topics == {1, 2}
Sessions == {1, 2}

\* Python's None for an optional value: an optional value is a sequence of
\* at most one element, <<>> when absent and <<v>> when it is v
None == <<>>
Some(v) == <<v>>
Get(opt) == opt[1]

\* largest lifetime total_questions of a record; an update that would pass it
\* is not started
MaxTotalQ == 6

Max(a, b) == IF a >= b THEN a ELSE b
Min(a, b) == IF a <= b THEN a ELSE b

RECURSIVE Gcd(_, _)
Gcd(a, b) == IF b = 0 THEN a ELSE Gcd(b, a % b)

RECURSIVE LcmUpTo(_)
LcmUpTo(n) == IF n <= 1 THEN 1 ELSE (LcmUpTo(n - 1) * n) \div Gcd(LcmUpTo(n - 1), n)

\* one score unit is 1/Scale; 1.0 is Scale, 0.5 is Half, 0.1 is Tenth
Scale == 20 * LcmUpTo(MaxTotalQ)
Half == Scale \div 2
Tenth == Scale \div 10

(***************************************************************************)
(* ConfidenceUpdatePolicy, lifetime-accuracy mode                          *)
(* (ProgressService.update_student_progress, the arithmetic).              *)
(***************************************************************************)
\* mutant of Clamp: the upper clamp is missing
ClampNoUpper(x) == Max(0, x)

\* max(0.0, min(1.0, x))
Clamp(x) == Max(0, Min(Scale, x))

\* mutant of Adjustment: the sign of the adjustment is reversed
AdjustmentReversed(ca, tq, kDiv) ==
    IF tq > 0 THEN ((tq - 2 * ca) * (Scale \div (2 * kDiv))) \div tq ELSE 0

\* mutant of Adjustment: the accuracy is not centred on 0.5
AdjustmentUncentred(ca, tq, kDiv) ==
    IF tq > 0 THEN ((2 * ca) * (Scale \div (2 * kDiv))) \div tq ELSE 0

\* (accuracy - 0.5) * k with accuracy = ca / tq if tq > 0 else 0.5, and
\* k = 1 / kDiv; as a fraction: (2 ca - tq) / (2 tq kDiv)
Adjustment(ca, tq, kDiv) ==
    IF tq > 0 THEN ((2 * ca - tq) * (Scale \div (2 * kDiv))) \div tq ELSE 0

\* mutant of UpdateExisting: the accuracy is that of this quiz alone
UpdateExistingQuizAccuracy(existing, correct_answers, total_questions) ==
    LET confidence_adjustment == Adjustment(correct_answers, total_questions, 10)
    IN [confidence_score |-> Clamp(existing.confidence_score + confidence_adjustment),
        attempts |-> existing.attempts + 1,
        total_questions |-> existing.total_questions + total_questions,
        correct_answers |-> existing.correct_answers + correct_answers]

\* mutant of UpdateExisting: total_questions is overwritten with this quiz's
\* length instead of accumulated
UpdateExistingTotalOverwritten(existing, correct_answers, total_questions) ==
    LET new_correct_answers == existing.correct_answers + correct_answers
        confidence_adjustment == Adjustment(new_correct_answers, total_questions, 10)
    IN [confidence_score |-> Clamp(existing.confidence_score + confidence_adjustment),
        attempts |-> existing.attempts + 1,
        total_questions |-> total_questions,
        correct_answers |-> new_correct_answers]

\* mutant of UpdateExisting: attempts is not incremented
UpdateExistingAttemptsKept(existing, correct_answers, total_questions) ==
    LET new_total_questions == existing.total_questions + total_questions
        new_correct_answers == existing.correct_answers + correct_answers
        confidence_adjustment == Adjustment(new_correct_answers, new_total_questions, 10)
    IN [confidence_score |-> Clamp(existing.confidence_score + confidence_adjustment),
        attempts |-> existing.attempts,
        total_questions |-> new_total_questions,
        correct_answers |-> new_correct_answers]

\* the `if existing:` branch: the values written by the UPDATE
UpdateExisting(existing, correct_answers, total_questions) ==
    LET new_attempts == existing.attempts + 1
        new_total_questions == existing.total_questions + total_questions
        new_correct_answers == existing.correct_answers + correct_answers
        confidence_adjustment == Adjustment(new_correct_answers, new_total_questions, 10)
        new_confidence == Clamp(existing.confidence_score + confidence_adjustment)
    IN [confidence_score |-> new_confidence,
        attempts |-> new_attempts,
        total_questions |-> new_total_questions,
        correct_answers |-> new_correct_answers]

\* mutant of CreateNew: the first attempt uses the steady-state factor 0.1
CreateNewSteadyFactor(correct_answers, total_questions) ==
    [confidence_score |-> Clamp(Half + Adjustment(correct_answers, total_questions, 10)),
     attempts |-> 1,
     total_questions |-> total_questions,
     correct_answers |-> correct_answers]

\* the `else:` branch: the values written by the INSERT
CreateNew(correct_answers, total_questions) ==
    [confidence_score |-> Clamp(Half + Adjustment(correct_answers, total_questions, 5)),
     attempts |-> 1,
     total_questions |-> total_questions,
     correct_answers |-> correct_answers]

(***************************************************************************)
(* ConfidenceUpdatePolicy, per-question mode (main_quiz.update_confidence_ *)
(* score): +0.1 when correct, -0.1 when not, clamped at each step.         *)
(***************************************************************************)
StepScore(score, is_correct) ==
    IF is_correct THEN Min(Scale, score + Tenth) ELSE Max(0, score - Tenth)

(***************************************************************************)
(* Python strings are sequences of one-character strings, so that          *)
(* answer[0] and str.startswith are computed, not assumed.                 *)
(***************************************************************************)
\* "A) w", "B) x", "C) y", "D) z": the option format the prompt asks for
LabelledOptions ==
    << <<"A", ")", " ", "w">>, <<"B", ")", " ", "x">>,
       <<"C", ")", " ", "y">>, <<"D", ")", " ", "z">> >>

\* a question whose designated answer is the bare letter of an option
QuestionLetter == [options |-> LabelledOptions, answer |-> <<"B">>]
\* a question whose designated answer is the full text of an option
QuestionFullText == [options |-> LabelledOptions, answer |-> <<"C", ")", " ", "y">>]

QuestionBank == {QuestionLetter}

\* the non-empty quizzes the generator can return within the bounds
RECURSIVE SeqsUpTo(_, _)
SeqsUpTo(S, n) ==
    IF n = 0 THEN {<<>>}
    ELSE LET shorter == SeqsUpTo(S, n - 1)
         IN shorter \cup {Append(q, x) : q \in {t \in shorter : Len(t) = n - 1}, x \in S}

Quizzes == SeqsUpTo(QuestionBank, MaxQuizLen) \ {<<>>}

VARIABLES
    p_rec,             \* policy specification: the record under update, or None
    p_score,           \* policy specification: a per-question-mode score, or None
    student_progress,  \* table student_progress: the bag of its rows
    quiz_history,      \* table quiz_history: the bag of its rows
    session_state,     \* st.session_state of each browser session
    call,              \* each session's running update_student_progress call
    ui,                \* the error each session's last script run displayed
    progress_file,     \* the JSON progress file: its confidence_scores, or None
    cli,               \* the run of main_quiz.main: its position and locals
    confidence_scores, \* selection specification: the map handed to min(...)
    selected,          \* selection specification: the outcome of the call, or None
    score_case,        \* scoring specification: a question, the option chosen, the verdicts
    content,           \* tables subjects, modules, topics: the rows' ids and parents
    page,              \* what each session's last render of the student page read
    hf                 \* app_hf.py: st.session_state of its one session

policyVars == <<p_rec, p_score>>
dbVars == <<student_progress, quiz_history>>
sessVars == <<session_state, call, ui>>
fileVars == <<progress_file, cli>>
selectVars == <<confidence_scores, selected>>
scoreVars == <<score_case>>
contentVars == <<content>>
pageVars == <<page, hf>>
vars == <<policyVars, dbVars, sessVars, fileVars, selectVars, scoreVars, contentVars, pageVars>>

(***************************************************************************)
(* SpecPolicy: the two update rules as pure functions, applied repeatedly  *)
(* to any valid prior record (or to no record).                            *)
(***************************************************************************)
\* prior scores tried: 0.0, 0.05, 0.5, 0.95, 1.0
PriorScores == {0, Scale \div 20, Half, Scale - Scale \div 20, Scale}

PriorRecords ==
    {r \in [confidence_score : PriorScores,
            attempts : 1..2,
            total_questions : 1..2,
            correct_answers : 0..2] : r.correct_answers <= r.total_questions}

PolicyIdle == p_rec = None /\ p_score = None

\* init_database: CREATE TABLE IF NOT EXISTS leaves both tables empty
DbEmpty == student_progress = EmptyBag /\ quiz_history = EmptyBag

\* quiz_results holds whether the key is set; the list itself, quiz_score and
\* quiz_total are what the results section prints and are read by nothing else
FreshSession(user) ==
    [user |-> user,
     quiz_started |-> FALSE,
     current_quiz |-> None,
     current_topic_id |-> None,
     quiz_completed |-> FALSE,
     quiz_results |-> FALSE]

\* the frame of update_student_progress: its arguments and `existing`
IdleCall == [pc |-> "idle", existing |-> None, student_id |-> None, topic_id |-> None,
             correct_answers |-> 0, total_questions |-> 0]

SessionsIdle ==
    /\ session_state = [s \in Sessions |-> FreshSession(1)]
    /\ call = [s \in Sessions |-> IdleCall]
    /\ ui = [s \in Sessions |-> ""]

\* main_quiz.main before its first statement
CliStart == [pc |-> "start", progress |-> <<>>, weakest_topic |-> None,
             quiz |-> <<>>, i |-> 0]

\* no progress file, main_quiz.main not started
FileIdle == progress_file = None /\ cli = CliStart

SelectIdle == confidence_scores = <<>> /\ selected = None

\* no answer under scoring
ScoreIdle == score_case = [question |-> QuestionLetter, choice |-> 1, scored |-> None]

\* The content a teacher has created: subject 1 (of teacher 1) with module 1
\* holding topic 1 and module 2 holding topic 2, and subject 2 (of teacher
\* 2) with the empty module 3.
InitialContent ==
    [subjects |-> {[id |-> 1, teacher_id |-> 1], [id |-> 2, teacher_id |-> 2]},
     modules |-> {[id |-> 1, subject_id |-> 1], [id |-> 2, subject_id |-> 1],
                  [id |-> 3, subject_id |-> 2]},
     topics |-> {[id |-> 1, module_id |-> 1], [id |-> 2, module_id |-> 2]}]

ContentIdle == content = InitialContent

\* the student page before a subject is opened: nothing selected or read
NoPage == [subject_id |-> None, topic_id |-> None, progress |-> None,
           confidence |-> None, topics_attempted |-> 0]

PageIdle == page = [s \in Sessions |-> NoPage]

\* app_hf.py on its first run: every syllabus topic at 0.5 and no quiz.
\* scored counts the Submit Quiz clicks that have scored current_quiz; it is
\* not a key of st.session_state but the observation of those clicks.
HfStart ==
    [student_progress |-> [k \in 1..2 |-> [topic |-> k, score |-> Half]],
     current_quiz |-> None,
     current_topic |-> None,
     scored |-> 0]

HfIdle == hf = HfStart

InitPolicy ==
    /\ DbEmpty /\ SessionsIdle /\ FileIdle /\ SelectIdle /\ ScoreIdle /\ ContentIdle /\ PageIdle /\ HfIdle
    /\ p_rec \in {Some(r) : r \in PriorRecords} \cup {None}
    /\ p_score \in {Some(k * Tenth) : k \in 0..10} \cup {None}

\* update_student_progress, the record it leaves for a prior record or None
ApplyUpdate(existing, correct_answers, total_questions) ==
    IF existing # None
    THEN UpdateExisting(Get(existing), correct_answers, total_questions)
    ELSE CreateNew(correct_answers, total_questions)

PolicyUpdate(correct_answers, total_questions) ==
    /\ p_rec # None => /\ Get(p_rec).attempts < MaxAttempts
                       /\ Get(p_rec).total_questions + total_questions <= MaxTotalQ
    /\ p_rec' = Some(ApplyUpdate(p_rec, correct_answers, total_questions))
    /\ UNCHANGED <<p_score, dbVars, sessVars, fileVars, selectVars, scoreVars, contentVars, pageVars>>

\* update_confidence_score: progress["confidence_scores"].get(topic_name, 0.5)
UpdateConfidenceScore(score, is_correct) ==
    StepScore(IF score = None THEN Half ELSE Get(score), is_correct)

PolicyQuestion(is_correct) ==
    /\ p_score' = Some(UpdateConfidenceScore(p_score, is_correct))
    /\ UNCHANGED <<p_rec, dbVars, sessVars, fileVars, selectVars, scoreVars, contentVars, pageVars>>

NextPolicy ==
    \/ \E total_questions \in 1..MaxQuizLen : \E correct_answers \in 0..total_questions :
            PolicyUpdate(correct_answers, total_questions)
    \/ \E is_correct \in BOOLEAN : PolicyQuestion(is_correct)

SpecPolicy == InitPolicy /\ [][NextPolicy]_vars

ScoreInRange(x) == 0 <= x /\ x <= Scale

\* C1: after any sequence of confidence updates, from a score in [0.0, 1.0]
\* or from no record, every stored confidence score is in [0.0, 1.0], in the
\* lifetime-accuracy mode and in the per-question mode.
C1_ScoreInRange ==
    /\ p_rec # None => ScoreInRange(Get(p_rec).confidence_score)
    /\ p_score # None => ScoreInRange(Get(p_score))

\* C1 witness: the clamp has acted at both ends: a record at 1.0 after an
\* update of a record that was created within the run, and a per-question
\* score at 0.0.
C1_Witness ==
    /\ p_rec # None /\ Get(p_rec).attempts >= 3 /\ Get(p_rec).confidence_score = Scale
    /\ p_score = Some(0)

(***************************************************************************)
(* The SQLite store (database.py, progress_service.py).  A table is the    *)
(* bag of its rows.  last_quiz_date, quiz_date and the autoincrement ids   *)
(* are left out: no code reads them back into a decision.                  *)
(***************************************************************************)
\* mutant of KeyMatches: the WHERE clause names the student only
KeyMatchesStudentOnly(row, student_id, topic_id) ==
    row.student_id = student_id

KeyMatches(row, student_id, topic_id) ==
    row.student_id = student_id /\ row.topic_id = topic_id

\* SELECT ... FROM student_progress WHERE student_id = ? AND topic_id = ?
SelectProgress(table, student_id, topic_id) ==
    {row \in BagToSet(table) : KeyMatches(row, student_id, topic_id)}

\* get_student_progress: cursor.fetchone(), a StudentProgress or None
get_student_progress(table, student_id, topic_id) ==
    LET rows == SelectProgress(table, student_id, topic_id)
    IN IF rows # {} THEN Some(CHOOSE row \in rows : TRUE) ELSE None

\* the frame after get_student_progress has returned
ReadCall(table, student_id, topic_id, correct_answers, total_questions) ==
    [pc |-> "read",
     existing |-> get_student_progress(table, student_id, topic_id),
     student_id |-> Some(student_id),
     topic_id |-> Some(topic_id),
     correct_answers |-> correct_answers,
     total_questions |-> total_questions]

ProgressRow(student_id, topic_id, values) ==
    [student_id |-> student_id,
     topic_id |-> topic_id,
     confidence_score |-> values.confidence_score,
     attempts |-> values.attempts,
     total_questions |-> values.total_questions,
     correct_answers |-> values.correct_answers]

\* the rows of a table with the key (hit) or without it, with multiplicity
RowsOfKey(table, student_id, topic_id, hit) ==
    [row \in {r \in BagToSet(table) : KeyMatches(r, student_id, topic_id) = hit}
        |-> CopiesIn(row, table)]

\* UPDATE student_progress SET ... WHERE student_id = ? AND topic_id = ?
UpdateProgressRows(table, student_id, topic_id, values) ==
    LET n == BagCardinality(RowsOfKey(table, student_id, topic_id, TRUE))
        kept == RowsOfKey(table, student_id, topic_id, FALSE)
    IN IF n = 0 THEN kept
       ELSE kept (+) [r \in {ProgressRow(student_id, topic_id, values)} |-> n]

\* mutant of InsertViolatesUnique: the table has no UNIQUE constraint
InsertNeverViolatesUnique(table, student_id, topic_id) == FALSE

\* UNIQUE(student_id, topic_id): an INSERT of a second row with the key
\* raises sqlite3.IntegrityError
InsertViolatesUnique(table, student_id, topic_id) ==
    SelectProgress(table, student_id, topic_id) # {}

\* INSERT INTO a table
InsertRow(table, row) == table (+) SetToBag({row})

\* INSERT INTO quiz_history (student_id, topic_id, score, total_questions)
HistoryRow(student_id, topic_id, correct_answers, total_questions) ==
    [student_id |-> student_id,
     topic_id |-> topic_id,
     score |-> correct_answers,
     total_questions |-> total_questions]

\* The statements of update_student_progress after the read, on the tables
\* as they are when the statements run: the UPDATE (existing was found) or
\* the INSERT (it was not), then the quiz_history INSERT, then the commit.
\* An IntegrityError leaves the connection uncommitted: nothing is written.
WriteProgress(progress, history, existing, student_id, topic_id, correct_answers, total_questions) ==
    IF existing = None /\ InsertViolatesUnique(progress, student_id, topic_id)
    THEN [error |-> "IntegrityError", progress |-> progress, history |-> history]
    ELSE [error |-> "",
          progress |->
              IF existing # None
              THEN UpdateProgressRows(progress, student_id, topic_id,
                       UpdateExisting(Get(existing), correct_answers, total_questions))
              ELSE InsertRow(progress, ProgressRow(student_id, topic_id,
                       CreateNew(correct_answers, total_questions))),
          history |-> InsertRow(history,
              HistoryRow(student_id, topic_id, correct_answers, total_questions))]

(***************************************************************************)
(* Quiz generation (QuizService.generate_quiz).  The language model's raw  *)
(* response is an input; generate_quiz is what the code makes of it.       *)
(***************************************************************************)
\* value_error: ValueError raised before the try block (topic not found,
\*              no books, no content loaded)
\* raises:      the retriever or the model raises inside the try block
\* no_json:     the response holds no "[" or no "]"
\* bad_json:    json.loads raises on the bracketed text
\* list:        json.loads gives the list `data` (possibly empty)
GeneratorResponses ==
    {[kind |-> k, data |-> <<>>] : k \in {"value_error", "raises", "no_json", "bad_json"}}
        \cup {[kind |-> "list", data |-> q] : q \in Quizzes \cup {<<>>}}

\* a response from which no quiz can be made
ResponseUnusable(response) ==
    response.kind # "list" \/ response.data = <<>>

\* generate_quiz: the quiz, None, or a ValueError passed to the caller
generate_quiz(response) ==
    IF response.kind = "value_error" THEN [raised |-> TRUE, quiz |-> None]
    ELSE IF response.kind \in {"raises", "no_json", "bad_json"}
         THEN [raised |-> FALSE, quiz |-> None]
    ELSE IF Len(response.data) = 0 THEN [raised |-> FALSE, quiz |-> None]
    ELSE [raised |-> FALSE, quiz |-> response.data]

(***************************************************************************)
(* student_interface.py: one action per Streamlit event of a session.      *)
(***************************************************************************)
InFlight == Cardinality({s \in Sessions : call[s].pc # "idle"})

\* the update stays within the bound on lifetime total_questions
WithinTotalBound(frame) ==
    frame.existing # None =>
        Get(frame.existing).total_questions + frame.total_questions <= MaxTotalQ

\* mutant of GenerateQuiz: the session is marked started whatever
\* generate_quiz returned
GenerateQuizStartsAnyway(s, topic_id, response) ==
    /\ call[s].pc = "idle"
    /\ LET r == generate_quiz(response)
       IN /\ session_state' = [session_state EXCEPT
                 ![s].current_quiz = r.quiz,
                 ![s].current_topic_id = Some(topic_id),
                 ![s].quiz_started = TRUE]
          /\ ui' = [ui EXCEPT ![s] = IF r.raised \/ r.quiz = None
                                     THEN "Failed to generate quiz" ELSE ""]
    /\ UNCHANGED <<call, dbVars, policyVars, fileVars, selectVars, scoreVars, contentVars, pageVars>>

\* "Generate Quiz" clicked with topic_id selected (student_interface, the
\* button's block).  Every failure branch ends in one st.error call; ui
\* records that a generation error is displayed, not which of the texts.
GenerateQuiz(s, topic_id, response) ==
    /\ call[s].pc = "idle"
    /\ LET r == generate_quiz(response)
       IN IF ~r.raised /\ r.quiz # None
          THEN /\ session_state' = [session_state EXCEPT
                      ![s].current_quiz = r.quiz,
                      ![s].current_topic_id = Some(topic_id),
                      ![s].quiz_started = TRUE]
               /\ ui' = [ui EXCEPT ![s] = ""]
          ELSE /\ ui' = [ui EXCEPT ![s] = "Failed to generate quiz"]
               /\ UNCHANGED session_state
    /\ UNCHANGED <<call, dbVars, policyVars, fileVars, selectVars, scoreVars, contentVars, pageVars>>

\* display_quiz is called, and so the form and its buttons are rendered
QuizDisplayed(s) ==
    session_state[s].quiz_started /\ session_state[s].current_quiz # None

\* answers[i] = answer[0] if answer else None
ExtractLetter(option) == IF option # <<>> THEN <<Head(option)>> ELSE None

\* mutant of IsCorrect: the whole option is compared, not its first character
IsCorrectWholeOption(question, choice) ==
    question.options[choice] = question.answer

\* display_quiz: is_correct = answers[i] == question['answer']
IsCorrect(question, choice) ==
    ExtractLetter(question.options[choice]) = question.answer

\* the per-question results of a submitted form
QuizResults(quiz, choices) ==
    [i \in 1..Len(quiz) |-> IsCorrect(quiz[i], choices[i])]

CorrectCount(results) == Cardinality({i \in DOMAIN results : results[i]})

\* mutant of SubmitRead: the update is for the topic selected on the page
SubmitReadSelectedTopic(s, choices) ==
    /\ call[s].pc = "idle"
    /\ QuizDisplayed(s)
    /\ page[s].topic_id # None
    /\ BagCardinality(quiz_history) + InFlight < MaxHistory
    /\ LET quiz == session_state[s].current_quiz
           topic_id == Get(page[s].topic_id)
           results == QuizResults(quiz, choices)
           frame == ReadCall(student_progress, session_state[s].user, topic_id,
                        CorrectCount(results), Len(quiz))
       IN /\ WithinTotalBound(frame)
          /\ call' = [call EXCEPT ![s] = frame]
    /\ ui' = [ui EXCEPT ![s] = ""]
    /\ UNCHANGED <<session_state, dbVars, policyVars, fileVars, selectVars, scoreVars, contentVars, pageVars>>

\* "Submit Quiz" clicked, up to and including the read of the existing
\* record (display_quiz scoring, then update_student_progress up to
\* get_student_progress, which reads on a connection of its own)
SubmitRead(s, choices) ==
    /\ call[s].pc = "idle"
    /\ QuizDisplayed(s)
    /\ BagCardinality(quiz_history) + InFlight < MaxHistory
    /\ LET quiz == session_state[s].current_quiz
           topic_id == Get(session_state[s].current_topic_id)
           results == QuizResults(quiz, choices)
           frame == ReadCall(student_progress, session_state[s].user, topic_id,
                        CorrectCount(results), Len(quiz))
       IN /\ WithinTotalBound(frame)
          /\ call' = [call EXCEPT ![s] = frame]
    /\ ui' = [ui EXCEPT ![s] = ""]
    /\ UNCHANGED <<session_state, dbVars, policyVars, fileVars, selectVars, scoreVars, contentVars, pageVars>>

\* the rest of the submission: the write statements and the commit of
\* update_student_progress, then display_quiz's session-state updates
SubmitWrite(s) ==
    /\ call[s].pc = "read"
    /\ LET c == call[s]
           w == WriteProgress(student_progress, quiz_history, c.existing,
                    Get(c.student_id), Get(c.topic_id),
                    c.correct_answers, c.total_questions)
       IN /\ student_progress' = w.progress
          /\ quiz_history' = w.history
          /\ IF w.error # ""
             THEN /\ ui' = [ui EXCEPT ![s] = w.error]
                  /\ UNCHANGED session_state
             ELSE /\ ui' = [ui EXCEPT ![s] = ""]
                  /\ session_state' = [session_state EXCEPT
                         ![s].quiz_results = TRUE,
                         ![s].quiz_completed = TRUE,
                         ![s].quiz_started = FALSE]
    /\ call' = [call EXCEPT ![s] = IdleCall]
    /\ UNCHANGED <<policyVars, fileVars, selectVars, scoreVars, contentVars, pageVars>>

\* "Take Another Quiz" clicked: the button is inside display_quiz
TakeAnotherQuiz(s) ==
    /\ call[s].pc = "idle"
    /\ QuizDisplayed(s)
    /\ session_state[s].quiz_completed
    /\ session_state' = [session_state EXCEPT
           ![s].current_quiz = None,
           ![s].current_topic_id = None,
           ![s].quiz_started = FALSE,
           ![s].quiz_completed = FALSE,
           ![s].quiz_results = FALSE]
    /\ ui' = [ui EXCEPT ![s] = ""]
    /\ UNCHANGED <<call, dbVars, policyVars, fileVars, selectVars, scoreVars, contentVars, pageVars>>

\* the student leaves: the browser session ends and st.session_state is
\* gone; the student's next session starts fresh
Abandon(s) ==
    /\ call[s].pc = "idle"
    /\ session_state[s] # FreshSession(session_state[s].user)
    /\ session_state' = [session_state EXCEPT ![s] = FreshSession(session_state[s].user)]
    /\ ui' = [ui EXCEPT ![s] = ""]
    /\ UNCHANGED <<call, dbVars, policyVars, fileVars, selectVars, scoreVars, contentVars, pageVars>>

\* Two browser sessions of one student (two tabs, or two devices), on an
\* empty database.
Init ==
    /\ PolicyIdle /\ FileIdle /\ SelectIdle /\ ScoreIdle /\ ContentIdle /\ PageIdle /\ HfIdle
    /\ DbEmpty
    /\ SessionsIdle

Choices(s) == [1..Len(session_state[s].current_quiz) -> 1..4]

\* the topics quizzes are taken on when two sessions run side by side
SharedTopics == {1}

Next ==
    \E s \in Sessions :
        \/ \E topic_id \in SharedTopics, response \in GeneratorResponses :
               GenerateQuiz(s, topic_id, response)
        \/ \E choices \in Choices(s) : SubmitRead(s, choices)
        \/ SubmitWrite(s)
        \/ TakeAnotherQuiz(s)
        \/ Abandon(s)

Spec == Init /\ [][Next]_vars

(***************************************************************************)
(* SpecSeq: the same sessions, with the submissions one after another: a   *)
(* submission starts only when no other is between its read and its write.*)
(***************************************************************************)
NextSeq ==
    \E s \in Sessions :
        \/ \E topic_id \in SharedTopics, response \in GeneratorResponses :
               GenerateQuiz(s, topic_id, response)
        \/ \E choices \in Choices(s) : InFlight = 0 /\ SubmitRead(s, choices)
        \/ SubmitWrite(s)
        \/ TakeAnotherQuiz(s)
        \/ Abandon(s)

SpecSeq == Init /\ [][NextSeq]_vars

(***************************************************************************)
(* Helpers of the properties.                                              *)
(***************************************************************************)
\* the sum of row[field] over the rows of a table in `rows`, with multiplicity
RECURSIVE SumField(_, _, _)
SumField(table, rows, field) ==
    IF rows = {} THEN 0
    ELSE LET row == CHOOSE r \in rows : TRUE
         IN row[field] * CopiesIn(row, table) + SumField(table, rows \ {row}, field)

HistoryOfKey(student_id, topic_id) ==
    {row \in BagToSet(quiz_history) : KeyMatches(row, student_id, topic_id)}

HistoryCount(student_id, topic_id) ==
    BagCardinality(RowsOfKey(quiz_history, student_id, topic_id, TRUE))

\* the stored record of a key, when there is exactly one
RecordOf(table, student_id, topic_id) ==
    Get(get_student_progress(table, student_id, topic_id))

HasRecord(table, student_id, topic_id) ==
    get_student_progress(table, student_id, topic_id) # None

\* C2: concurrent submissions for one (student, topic) do not interleave
\* their read-modify-write: once no submission is running, no submission has
\* failed, and every key's record counts every submission made for it:
\* attempts is their number, total_questions and correct_answers are the sums
\* of their outcomes, as after running them one after another.
C2_ConcurrentSubmissionsSerialize ==
    (\A s \in Sessions : call[s].pc = "idle") =>
        /\ \A s \in Sessions : ui[s] # "IntegrityError"
        /\ \A student_id \in Students, topic_id \in Topics :
               HistoryCount(student_id, topic_id) > 0 =>
                   /\ HasRecord(student_progress, student_id, topic_id)
                   /\ LET r == RecordOf(student_progress, student_id, topic_id)
                          h == HistoryOfKey(student_id, topic_id)
                      IN /\ r.attempts = HistoryCount(student_id, topic_id)
                         /\ r.total_questions = SumField(quiz_history, h, "total_questions")
                         /\ r.correct_answers = SumField(quiz_history, h, "score")

\* a step in which session s completes a submission without an exception
SubmissionCompletes(s) ==
    call[s].pc = "read" /\ call'[s].pc = "idle" /\ ui'[s] # "IntegrityError"

\* the score the running call of session s read: the record's, or the 0.5
\* the first-attempt formula starts from
PriorScore(s) ==
    IF call[s].existing # None THEN Get(call[s].existing).confidence_score ELSE Half

\* the key's record after the step
NewRecord(s) ==
    RecordOf(student_progress', Get(call[s].student_id), Get(call[s].topic_id))

\* C3 as claimed: an all-correct outcome never yields a score lower than the
\* prior score, and an all-incorrect outcome never yields a higher one.
C3_MonotonicBounding ==
    [][\A s \in Sessions :
          SubmissionCompletes(s) =>
              /\ call[s].correct_answers = call[s].total_questions =>
                     NewRecord(s).confidence_score >= PriorScore(s)
              /\ call[s].correct_answers = 0 =>
                     NewRecord(s).confidence_score <= PriorScore(s)]_vars

\* C3 amended: an all-correct outcome never yields a lower score when the
\* lifetime accuracy that includes it is at least 0.5 (always so on a first
\* attempt), and an all-incorrect outcome never yields a higher score when
\* the lifetime accuracy that includes it is at most 0.5 (always so on a
\* first attempt).
C3_MonotonicWithinLifetimeAccuracy ==
    [][\A s \in Sessions :
          SubmissionCompletes(s) =>
              LET new == NewRecord(s)
              IN /\ (/\ call[s].correct_answers = call[s].total_questions
                     /\ 2 * new.correct_answers >= new.total_questions)
                        => new.confidence_score >= PriorScore(s)
                 /\ (/\ call[s].correct_answers = 0
                     /\ 2 * new.correct_answers <= new.total_questions)
                        => new.confidence_score <= PriorScore(s)]_vars

\* C3 witness: an all-correct quiz was applied to an existing record whose
\* lifetime accuracy stays at least 0.5, and the score rose above that of
\* the first attempt (0.6 after 1 of 1, then 0.65 after 2 of 2 more).
C3_Witness ==
    /\ HasRecord(student_progress, 1, 1)
    /\ LET r == RecordOf(student_progress, 1, 1)
       IN /\ r.attempts = 2
          /\ r.correct_answers = r.total_questions
          /\ r.confidence_score = Half + Tenth + Tenth \div 2

\* C7: every stored record has total_questions >= 0, correct_answers >= 0
\* and correct_answers <= total_questions, after any sequence of quiz
\* submissions, concurrent ones included.
C7_CountersConsistent ==
    \A row \in BagToSet(student_progress) :
        /\ row.total_questions >= 0
        /\ row.correct_answers >= 0
        /\ row.correct_answers <= row.total_questions

\* C7 witness: a record updated at least twice with some answers right and
\* some wrong.
C7_Witness ==
    \E row \in BagToSet(student_progress) :
        /\ row.attempts >= 2
        /\ 0 < row.correct_answers
        /\ row.correct_answers < row.total_questions

\* C8: each successful submission, run after the previous one has finished,
\* adds exactly 1 to attempts, the quiz length to total_questions and the
\* correct count to correct_answers of the stored record (a record that does
\* not exist yet counts as 0, 0, 0), so that after n submissions the record
\* holds n and the two sums.
C8_CountersAccumulate ==
    [][\A s \in Sessions :
          SubmissionCompletes(s) =>
              LET student_id == Get(call[s].student_id)
                  topic_id == Get(call[s].topic_id)
                  had == HasRecord(student_progress, student_id, topic_id)
                  old == RecordOf(student_progress, student_id, topic_id)
                  new == NewRecord(s)
              IN /\ HasRecord(student_progress', student_id, topic_id)
                 /\ new.attempts = (IF had THEN old.attempts ELSE 0) + 1
                 /\ new.total_questions =
                        (IF had THEN old.total_questions ELSE 0) + call[s].total_questions
                 /\ new.correct_answers =
                        (IF had THEN old.correct_answers ELSE 0) + call[s].correct_answers]_vars

\* C8 witness: two submissions made one after the other (a quiz of 2 with 1
\* right, a quiz of 1 with 1 right, in either order) and a record that
\* holds attempts 2, total_questions 3, correct_answers 2.
C8_Witness ==
    /\ InFlight = 0
    /\ HistoryCount(1, 1) = 2
    /\ HasRecord(student_progress, 1, 1)
    /\ LET r == RecordOf(student_progress, 1, 1)
       IN r.attempts = 2 /\ r.total_questions = 3 /\ r.correct_answers = 2

\* C6: a generation that fails (the response is unparsable, empty, or the
\* generator raises) changes neither the session state (quiz_started stays
\* as it was, no current_quiz is stored) nor any table.
C6_FailedGenerationChangesNothing ==
    [][\A s \in Sessions, topic_id \in Topics, response \in GeneratorResponses :
          (ResponseUnusable(response) /\ GenerateQuiz(s, topic_id, response)) =>
              /\ session_state' = session_state
              /\ student_progress' = student_progress
              /\ quiz_history' = quiz_history]_vars

\* C6 witness: a session that has just been told the generation failed, has
\* no quiz started and none stored, while the database holds a record.
C6_Witness ==
    \E s \in Sessions :
        /\ ui[s] = "Failed to generate quiz"
        /\ ~session_state[s].quiz_started
        /\ session_state[s].current_quiz = None
        /\ student_progress # EmptyBag

(***************************************************************************)
(* SpecApi: ProgressService.update_student_progress called directly, one   *)
(* call after another, with any outcome a caller can pass, the outcome of  *)
(* a quiz with no questions included.                                      *)
(***************************************************************************)
\* update_student_progress(student_id, topic_id, correct_answers,
\* total_questions), from its first statement to its commit
ApiUpdate(s, student_id, topic_id, correct_answers, total_questions) ==
    /\ call[s].pc = "idle"
    /\ BagCardinality(quiz_history) < MaxHistory
    /\ LET frame == ReadCall(student_progress, student_id, topic_id,
                        correct_answers, total_questions)
           w == WriteProgress(student_progress, quiz_history, frame.existing,
                    student_id, topic_id, correct_answers, total_questions)
       IN /\ WithinTotalBound(frame)
          /\ student_progress' = w.progress
          /\ quiz_history' = w.history
          /\ ui' = [ui EXCEPT ![s] = w.error]
    /\ UNCHANGED <<session_state, call, policyVars, fileVars, selectVars, scoreVars, contentVars, pageVars>>

\* the storage step that raises: the progress UPDATE or INSERT, the
\* quiz_history INSERT, or the commit
FailPoints == {"progress", "history", "commit"}

\* mutant of Rollback: the statements already executed stay written
RollbackKeepsWrites(committed, uncommitted) == uncommitted

\* The exception leaves update_student_progress before conn.commit(): the
\* connection is discarded with its transaction open, and SQLite rolls the
\* transaction back, so the table is as last committed.
Rollback(committed, uncommitted) == committed

\* update_student_progress's statements with a storage failure at fail_at:
\* the error raised and the tables as other connections see them afterwards
WriteProgressFailing(progress, history, existing, student_id, topic_id, correct_answers, total_questions, fail_at) ==
    LET w == WriteProgress(progress, history, existing, student_id, topic_id,
                 correct_answers, total_questions)
        progress_written == IF fail_at = "progress" THEN progress ELSE w.progress
        history_written == IF fail_at = "commit" THEN w.history ELSE history
    IN [error |-> IF w.error # "" THEN w.error ELSE "OperationalError",
        progress |-> Rollback(progress, progress_written),
        history |-> Rollback(history, history_written)]

\* update_student_progress in which a storage step raises
ApiUpdateFails(s, student_id, topic_id, correct_answers, total_questions, fail_at) ==
    /\ call[s].pc = "idle"
    /\ LET frame == ReadCall(student_progress, student_id, topic_id,
                        correct_answers, total_questions)
           w == WriteProgressFailing(student_progress, quiz_history, frame.existing,
                    student_id, topic_id, correct_answers, total_questions, fail_at)
       IN /\ WithinTotalBound(frame)
          /\ student_progress' = w.progress
          /\ quiz_history' = w.history
          /\ ui' = [ui EXCEPT ![s] = w.error]
    /\ UNCHANGED <<session_state, call, policyVars, fileVars, selectVars, scoreVars, contentVars, pageVars>>

\* "Create exactly 3 multiple-choice questions": the length of the quizzes
\* the prompt asks for
QuizQuestions == 3

\* the total_questions a caller passes: none, a short quiz, a quiz as asked for
ApiTotals == 0..MaxQuizLen \cup {QuizQuestions}

\* the students whose outcomes are passed
ApiStudents == {1}

\* the calls are made one after another: one caller makes them all
ApiCaller == 1

NextApi ==
    \E s \in {ApiCaller}, student_id \in ApiStudents, topic_id \in Topics :
        \E total_questions \in ApiTotals : \E correct_answers \in 0..total_questions :
            \/ ApiUpdate(s, student_id, topic_id, correct_answers, total_questions)
            \/ \E fail_at \in FailPoints :
                   ApiUpdateFails(s, student_id, topic_id, correct_answers,
                                  total_questions, fail_at)

SpecApi == Init /\ [][NextApi]_vars

\* C4: update_student_progress called with total_questions = 0 signals an
\* invalid outcome and writes nothing: student_progress and quiz_history are
\* as they were before the call.
C4_ZeroQuestionOutcomeRejected ==
    [][\A s \in Sessions, student_id \in Students, topic_id \in Topics :
          ApiUpdate(s, student_id, topic_id, 0, 0) =>
              /\ student_progress' = student_progress
              /\ quiz_history' = quiz_history
              /\ ui'[s] = "InvalidOutcome"]_vars

(***************************************************************************)
(* Confidence maps (Python dicts): a map is the sequence of its items in   *)
(* iteration order, which is insertion order.                              *)
(***************************************************************************)
Item(topic, score) == [topic |-> topic, score |-> score]

DictKeys(d) == {d[i].topic : i \in 1..Len(d)}

\* d.get(topic), as an optional value
DictGet(d, topic) ==
    IF topic \in DictKeys(d)
    THEN Some((CHOOSE item \in {d[i] : i \in 1..Len(d)} : item.topic = topic).score)
    ELSE None

\* d[topic] = score: an existing key keeps its place, a new key goes last
DictSet(d, topic, score) ==
    IF topic \in DictKeys(d)
    THEN [i \in 1..Len(d) |-> IF d[i].topic = topic THEN Item(topic, score) ELSE d[i]]
    ELSE Append(d, Item(topic, score))

(***************************************************************************)
(* Weakest-topic selection: min(confidence_scores, key=confidence_scores   *)
(* .get).  Python's min scans in iteration order and replaces the item it  *)
(* holds only by one whose key is smaller.                                 *)
(***************************************************************************)
\* mutant of Smaller: an item with an equal key replaces the held one
SmallerOrEqual(candidate, held) == candidate <= held

Smaller(candidate, held) == candidate < held

\* the scan of min over items i..Len(d), holding the item at index best
RECURSIVE ScanMin(_, _, _)
ScanMin(d, i, best) ==
    IF i > Len(d) THEN best
    ELSE ScanMin(d, i + 1, IF Smaller(d[i].score, d[best].score) THEN i ELSE best)

\* mutant of get_next_quiz_topic: a map with no entries yields topic 1
get_next_quiz_topicDefault(d) ==
    IF Len(d) = 0
    THEN [error |-> "", topic |-> Some(1)]
    ELSE [error |-> "", topic |-> Some(d[ScanMin(d, 2, 1)].topic)]

\* get_next_quiz_topic: min raises ValueError on an empty map
get_next_quiz_topic(d) ==
    IF Len(d) = 0
    THEN [error |-> "ValueError", topic |-> None]
    ELSE [error |-> "", topic |-> Some(d[ScanMin(d, 2, 1)].topic)]

(***************************************************************************)
(* SpecFile: main_quiz.py run from the command line on the JSON progress   *)
(* file.                                                                   *)
(***************************************************************************)
\* SYLLABUS_TOPICS, cut to two topics
SYLLABUS_TOPICS == <<1, 2>>

SyllabusSet == {SYLLABUS_TOPICS[i] : i \in 1..Len(SYLLABUS_TOPICS)}

\* {topic: 0.5 for topic in SYLLABUS_TOPICS}
InitialScores == [i \in 1..Len(SYLLABUS_TOPICS) |-> Item(SYLLABUS_TOPICS[i], Half)]

\* mutant of load_student_progress: the scores are reset on every load
load_student_progressResets(file) ==
    [progress |-> InitialScores, file |-> Some(InitialScores)]

\* load_student_progress: the progress it returns and the file it leaves
load_student_progress(file) ==
    IF file = None \/ DictKeys(Get(file)) # SyllabusSet
    THEN [progress |-> InitialScores, file |-> Some(InitialScores)]
    ELSE [progress |-> Get(file), file |-> file]

\* load_student_progress of 2.py: the file as it is, or the initial scores
\* when there is no file
load_student_progress_2(file) ==
    IF file = None
    THEN [progress |-> InitialScores, file |-> Some(InitialScores)]
    ELSE [progress |-> Get(file), file |-> file]

\* update_confidence_score, the progress it returns and saves
update_confidence_score(progress, topic_name, is_correct) ==
    DictSet(progress, topic_name,
        UpdateConfidenceScore(DictGet(progress, topic_name), is_correct))

\* main_quiz.generate_quiz: the quiz or None
main_generate_quiz(response) ==
    IF response.kind = "list" /\ Len(response.data) # 0 THEN response.data ELSE None

\* the responses main_quiz.generate_quiz turns into a quiz or into None
CliResponses == {r \in GeneratorResponses : r.kind # "value_error"}

\* the progress files a run can find: the scores are multiples of 0.1
FileScores == {0, Tenth, Half, Scale}

\* no file; a file of another syllabus; a file that lacks a syllabus topic;
\* a file of the syllabus topics
ProgressFiles ==
    {None, Some(<<Item(7, Half)>>)}
        \cup {Some(<<Item(1, a)>>) : a \in FileScores}
        \cup {Some(<<Item(1, a), Item(2, b)>>) : a, b \in FileScores}

\* input(...).upper().strip(), the answers typed
TypedAnswers == {<<"A">>, <<"B">>}

InitFile ==
    /\ PolicyIdle /\ SelectIdle /\ DbEmpty /\ SessionsIdle /\ ScoreIdle /\ ContentIdle /\ PageIdle /\ HfIdle
    /\ progress_file \in ProgressFiles
    /\ cli = CliStart

\* main up to the first prompt: load_student_progress, get_next_quiz_topic,
\* generate_quiz
MainStart(response) ==
    /\ cli.pc = "start"
    /\ LET loaded == load_student_progress(progress_file)
           quiz == main_generate_quiz(response)
       IN /\ progress_file' = loaded.file
          /\ cli' = [pc |-> IF quiz # None THEN "quiz" ELSE "done",
                     progress |-> loaded.progress,
                     weakest_topic |-> get_next_quiz_topic(loaded.progress).topic,
                     quiz |-> quiz,
                     i |-> IF quiz # None THEN 1 ELSE 0]
    /\ UNCHANGED <<policyVars, dbVars, sessVars, selectVars, scoreVars, contentVars, pageVars>>

\* one turn of the loop of main: the answer is read, compared and the score
\* updated and saved
MainAnswer(user_answer) ==
    /\ cli.pc = "quiz"
    /\ LET is_correct == user_answer = cli.quiz[cli.i].answer
           progress == update_confidence_score(cli.progress,
                           Get(cli.weakest_topic), is_correct)
       IN /\ progress_file' = Some(progress)
          /\ cli' = [cli EXCEPT !.progress = progress,
                                !.i = cli.i + 1,
                                !.pc = IF cli.i = Len(cli.quiz) THEN "done" ELSE "quiz"]
    /\ UNCHANGED <<policyVars, dbVars, sessVars, selectVars, scoreVars, contentVars, pageVars>>

\* the student leaves at a prompt (end of input or an interrupt ends main)
MainExit ==
    /\ cli.pc = "quiz"
    /\ cli' = [cli EXCEPT !.pc = "left"]
    /\ UNCHANGED <<progress_file, policyVars, dbVars, sessVars, selectVars, scoreVars, contentVars, pageVars>>

\* the program is run again
MainRerun ==
    /\ cli.pc \in {"done", "left"}
    /\ cli' = CliStart
    /\ UNCHANGED <<progress_file, policyVars, dbVars, sessVars, selectVars, scoreVars, contentVars, pageVars>>

NextFile ==
    \/ \E response \in CliResponses : MainStart(response)
    \/ \E user_answer \in TypedAnswers : MainAnswer(user_answer)
    \/ MainExit
    \/ MainRerun

SpecFile == InitFile /\ [][NextFile]_vars

\* C5: while a quiz of main_quiz.main is unfinished, no step changes the
\* progress file, so that a student who leaves before the last answer
\* leaves every stored score as it was when the quiz started.
C5_UnfinishedQuizLeavesStoreUnchanged ==
    [][(cli.pc = "quiz" /\ cli'.pc \in {"quiz", "left"}) =>
           progress_file' = progress_file]_vars

(***************************************************************************)
(* SpecSelect: weakest-topic selection as a pure function of the map, on   *)
(* every map within the bounds, the empty one included.                    *)
(***************************************************************************)
\* most entries of a confidence map
MaxTopics == 3

TopicNames == 1..MaxTopics

SelectScores == {0, Half, Scale}

\* the maps of n entries: distinct topics in any order
RECURSIVE MapsOfLen(_)
MapsOfLen(n) ==
    IF n = 0 THEN {<<>>}
    ELSE {Append(d, Item(topic, score)) :
              d \in MapsOfLen(n - 1), topic \in TopicNames, score \in SelectScores}

ConfidenceMaps ==
    {d \in UNION {MapsOfLen(n) : n \in 0..MaxTopics} : Cardinality(DictKeys(d)) = Len(d)}

InitSelect ==
    /\ PolicyIdle /\ FileIdle /\ DbEmpty /\ SessionsIdle /\ ScoreIdle /\ ContentIdle /\ PageIdle /\ HfIdle
    /\ confidence_scores \in ConfidenceMaps
    /\ selected = None

\* weakest_topic = min(confidence_scores, key=confidence_scores.get)
SelectWeakest ==
    /\ selected' = Some(get_next_quiz_topic(confidence_scores))
    /\ UNCHANGED <<confidence_scores, policyVars, dbVars, sessVars, fileVars, scoreVars, contentVars, pageVars>>

\* confidence_scores[topic] = score, between two selections
StoreScore(topic, score) ==
    /\ topic \in DictKeys(confidence_scores) \/ Len(confidence_scores) < MaxTopics
    /\ confidence_scores' = DictSet(confidence_scores, topic, score)
    /\ selected' = None
    /\ UNCHANGED <<policyVars, dbVars, sessVars, fileVars, scoreVars, contentVars, pageVars>>

NextSelect ==
    \/ SelectWeakest
    \/ \E topic \in TopicNames, score \in SelectScores : StoreScore(topic, score)

SpecSelect == InitSelect /\ [][NextSelect]_vars

\* the index of a topic in a map
IndexOf(d, topic) == CHOOSE i \in 1..Len(d) : d[i].topic = topic

\* C9: on a map with entries the selection returns a topic of the map whose
\* score is the minimum of the map and which comes before every other topic
\* with that score in the map's iteration order; the topic is thereby fixed
\* by the map, so repeated calls on the same map return the same topic.
C9_WeakestIsFirstMinimum ==
    (selected # None /\ confidence_scores # <<>>) =>
        /\ Get(selected).error = ""
        /\ Get(selected).topic # None
        /\ Get(Get(selected).topic) \in DictKeys(confidence_scores)
        /\ LET k == IndexOf(confidence_scores, Get(Get(selected).topic))
           IN \A j \in 1..Len(confidence_scores) :
                  /\ confidence_scores[j].score >= confidence_scores[k].score
                  /\ confidence_scores[j].score = confidence_scores[k].score => j >= k

\* C9 witness: three topics, the second and the third tied at the minimum
\* below the first, and the second selected.
C9_Witness ==
    /\ Len(confidence_scores) = 3
    /\ confidence_scores[2].score = confidence_scores[3].score
    /\ confidence_scores[2].score < confidence_scores[1].score
    /\ selected # None
    /\ Get(selected).topic = Some(confidence_scores[2].topic)

\* C10: the selection on a map with no entries fails with an error and
\* returns no topic.
C10_EmptyMapFails ==
    (selected # None /\ confidence_scores = <<>>) =>
        /\ Get(selected).error = "ValueError"
        /\ Get(selected).topic = None

\* C10 witness: the selection has run on the empty map.
C10_Witness ==
    /\ confidence_scores = <<>>
    /\ selected # None
    /\ Get(selected).error # ""

(***************************************************************************)
(* Profile initialisation (load_student_progress) on the progress file.    *)
(***************************************************************************)
\* a step in which main runs load_student_progress
LoadStep == cli.pc = "start" /\ cli'.pc # "start"

\* C11: load_student_progress never overwrites the score of a syllabus topic
\* that already has a record in the file, whatever the file's topic set:
\* after the load the topic has the score it had before.
C11_LoadKeepsExistingScores ==
    [][(LoadStep /\ progress_file # None) =>
           \A i \in 1..Len(Get(progress_file)) :
               LET item == Get(progress_file)[i]
               IN item.topic \in SyllabusSet =>
                      DictGet(Get(progress_file'), item.topic) = Some(item.score)]_vars

\* C12: on a file that holds the syllabus topics (as left by a load and any
\* updates after it), load_student_progress returns the stored scores and
\* leaves the file as it is; and on any file a second load right after the
\* first returns what the first returned and changes nothing.  The same for
\* load_student_progress of 2.py.
C12_LoadIdempotent ==
    LET first == load_student_progress(progress_file)
        second == load_student_progress(first.file)
        first_2 == load_student_progress_2(progress_file)
        second_2 == load_student_progress_2(first_2.file)
    IN /\ second = first
       /\ second_2 = first_2
       /\ (progress_file # None /\ DictKeys(Get(progress_file)) = SyllabusSet) =>
              /\ first = [progress |-> Get(progress_file), file |-> progress_file]
              /\ first_2 = first

\* C12 witness: the program was run again after an update had moved a score
\* off 0.5 to a value no initial file holds (0.6), and the load of the new
\* run returned the stored scores and left the file as it was.
C12_Witness ==
    /\ cli.pc = "quiz" /\ cli.i = 1
    /\ progress_file = Some(cli.progress)
    /\ DictGet(cli.progress, 1) = Some(Half + Tenth)

(***************************************************************************)
(* The end-to-end scenario of two quizzes of three questions.              *)
(***************************************************************************)
\* a score in thousandths, rounded to the nearest (round(score, 3) * 1000)
Round3(score) == (2000 * score + Scale) \div (2 * Scale)

\* the counters of a stored record
Counters(row) ==
    [attempts |-> row.attempts,
     total_questions |-> row.total_questions,
     correct_answers |-> row.correct_answers]

\* C13: update_student_progress with 2 of 3 for a key without a record
\* leaves total_questions 3, correct_answers 2, attempts 1 and a score that
\* rounds to 0.533; update_student_progress with 3 of 3 on that record leaves
\* total_questions 6, correct_answers 5, attempts 2 and a score that rounds
\* to 0.567.
C13_EndToEndScenario ==
    [][\A s \in Sessions, student_id \in Students, topic_id \in Topics :
          LET had == HasRecord(student_progress, student_id, topic_id)
              old == RecordOf(student_progress, student_id, topic_id)
              new == RecordOf(student_progress', student_id, topic_id)
          IN /\ (~had /\ ApiUpdate(s, student_id, topic_id, 2, 3)) =>
                    /\ HasRecord(student_progress', student_id, topic_id)
                    /\ Counters(new) =
                           [attempts |-> 1, total_questions |-> 3, correct_answers |-> 2]
                    /\ Round3(new.confidence_score) = 533
             /\ (/\ had
                 /\ Counters(old) =
                        [attempts |-> 1, total_questions |-> 3, correct_answers |-> 2]
                 /\ ApiUpdate(s, student_id, topic_id, 3, 3)) =>
                    /\ Counters(new) =
                           [attempts |-> 2, total_questions |-> 6, correct_answers |-> 5]
                    /\ Round3(new.confidence_score) = 567]_vars

\* C13 witness: the record of (1, 1) after the two quizzes of the scenario,
\* with both quizzes in quiz_history.
C13_Witness ==
    /\ HasRecord(student_progress, 1, 1)
    /\ Counters(RecordOf(student_progress, 1, 1)) =
           [attempts |-> 2, total_questions |-> 6, correct_answers |-> 5]
    /\ Round3(RecordOf(student_progress, 1, 1).confidence_score) = 567
    /\ CopiesIn(HistoryRow(1, 1, 2, 3), quiz_history) = 1
    /\ CopiesIn(HistoryRow(1, 1, 3, 3), quiz_history) = 1

(***************************************************************************)
(* SpecScore: the scoring of one submitted answer, as display_quiz, app.py *)
(* and app_hf.py compute it, on every question and choice within the sets  *)
(* below.                                                                  *)
(***************************************************************************)
\* "a) w", ...: options labelled with lower-case letters
LowerLabelledOptions ==
    << <<"a", ")", " ", "w">>, <<"b", ")", " ", "x">>,
       <<"c", ")", " ", "y">>, <<"d", ")", " ", "z">> >>

\* "w", ...: options without a label
PlainOptions == << <<"w">>, <<"x">>, <<"y">>, <<"z">> >>

\* "w", "wx", ...: four distinct options without labels, the first a prefix
\* of the second
PrefixOptions == << <<"w">>, <<"w", "x">>, <<"y">>, <<"z">> >>

OptionLists == {LabelledOptions, LowerLabelledOptions, PlainOptions, PrefixOptions}

\* the designated answers: a letter in either case, or one of the options
ScoredQuestions ==
    {[options |-> o, answer |-> a] :
        o \in OptionLists,
        a \in {<<"A">>, <<"B">>, <<"C">>, <<"D">>, <<"a">>, <<"b">>}
                 \cup {LabelledOptions[k] : k \in 1..4}
                 \cup {LowerLabelledOptions[k] : k \in 1..4}
                 \cup {PlainOptions[k] : k \in 1..4}}

\* str.startswith
StartsWith(string, prefix) ==
    Len(prefix) <= Len(string) /\ SubSeq(string, 1, Len(prefix)) = prefix

\* app.py: is_correct = user_answer.startswith(correct_answer)
IsCorrectApp(question, choice) ==
    StartsWith(question.options[choice], question.answer)

\* app_hf.py: is_correct = answers[i].startswith(question['answer'])
IsCorrectHf(question, choice) ==
    StartsWith(question.options[choice], question.answer)

\* the verdicts of the three scorers on one question and choice
Verdicts(question, choice) ==
    [display_quiz |-> IsCorrect(question, choice),
     app |-> IsCorrectApp(question, choice),
     app_hf |-> IsCorrectHf(question, choice)]

InitScore ==
    /\ PolicyIdle /\ FileIdle /\ SelectIdle /\ DbEmpty /\ SessionsIdle /\ ContentIdle /\ PageIdle /\ HfIdle
    /\ score_case \in [question : ScoredQuestions, choice : 1..4, scored : {None}]

\* the form is submitted: the chosen option is scored
ScoreSubmitted ==
    /\ score_case' = [score_case EXCEPT
           !.scored = Some(Verdicts(score_case.question, score_case.choice))]
    /\ UNCHANGED <<policyVars, dbVars, sessVars, fileVars, selectVars, contentVars, pageVars>>

\* another radio option is chosen
ChooseOption(choice) ==
    /\ choice # score_case.choice
    /\ score_case' = [score_case EXCEPT !.choice = choice, !.scored = None]
    /\ UNCHANGED <<policyVars, dbVars, sessVars, fileVars, selectVars, contentVars, pageVars>>

NextScore ==
    \/ ScoreSubmitted
    \/ \E choice \in 1..4 : ChooseOption(choice)

SpecScore == InitScore /\ [][NextScore]_vars

\* the option chosen in the case under scoring
ChosenOption == score_case.question.options[score_case.choice]

\* the option starts with a one-letter label: "B) ..."
Labelled(option) == Len(option) >= 2 /\ option[2] = ")"

\* upper case of a letter
Upper(letter) ==
    CASE letter = "a" -> "A" [] letter = "b" -> "B"
      [] letter = "c" -> "C" [] letter = "d" -> "D"
      [] OTHER -> letter

\* C14: a chosen option that carries a letter label is scored correct by
\* display_quiz, by app.py and by app_hf.py when the designated answer is the
\* bare letter of that option.
C14_LabelledOptionMatchesLetter ==
    (/\ score_case.scored # None
     /\ Labelled(ChosenOption)
     /\ score_case.question.answer = <<ChosenOption[1]>>) =>
        /\ Get(score_case.scored).display_quiz
        /\ Get(score_case.scored).app
        /\ Get(score_case.scored).app_hf

\* C14 witness: "B) x" chosen, designated answer "B", scored by the three.
C14_Witness ==
    /\ score_case.scored = Some([display_quiz |-> TRUE, app |-> TRUE, app_hf |-> TRUE])
    /\ ChosenOption = <<"B", ")", " ", "x">>
    /\ score_case.question.answer = <<"B">>

\* C15: display_quiz scores a chosen option correct when the designated
\* answer is the full text of that option, and when the designated answer is
\* the letter of the option's label in either case.
C15_FullTextAndCaseInsensitive ==
    (/\ score_case.scored # None
     /\ \/ score_case.question.answer = ChosenOption
        \/ /\ Labelled(ChosenOption)
           /\ Len(score_case.question.answer) = 1
           /\ Upper(score_case.question.answer[1]) = Upper(ChosenOption[1])) =>
        Get(score_case.scored).display_quiz

\* C16: when a storage step of update_student_progress fails, the caller
\* gets the error and student_progress and quiz_history are exactly as they
\* were before the call.  (Every step of SpecApi is a call of ApiCaller, and
\* ui holds the error the call raised, "" when it raised none.)
C16_StorageFailureLeavesStoreIntact ==
    [][ui'[ApiCaller] # "" =>
           /\ student_progress' = student_progress
           /\ quiz_history' = quiz_history]_vars

\* C16 witness: a call has failed while the key it was for has a record and
\* one quiz in quiz_history, both from an earlier call.
C16_Witness ==
    \E s \in {ApiCaller} :
        /\ ui[s] = "OperationalError"
        /\ HasRecord(student_progress, 1, 1)
        /\ RecordOf(student_progress, 1, 1).attempts = 1
        /\ HistoryCount(1, 1) = 1

(***************************************************************************)
(* SpecContent: content management (content_service.py) deleting topics,   *)
(* modules and subjects while outcomes of students are recorded.  Foreign  *)
(* keys are declared but not enforced (no PRAGMA foreign_keys), so the     *)
(* cascade is what the delete functions do themselves.                     *)
(***************************************************************************)
\* the session of the teacher who manages the content
TeacherSession == 2

TopicIds(c) == {t.id : t \in c.topics}

\* SELECT id FROM topics WHERE module_id = ?
TopicsOfModule(c, module_id) == {t.id : t \in {u \in c.topics : u.module_id = module_id}}

\* SELECT id FROM topics WHERE module_id IN
\*     (SELECT id FROM modules WHERE subject_id = ?)
TopicsOfSubject(c, subject_id) ==
    UNION {TopicsOfModule(c, m.id) : m \in {n \in c.modules : n.subject_id = subject_id}}

\* mutant of DeleteRowsOfTopics: nothing is deleted
DeleteRowsOfTopicsSkipped(table, topic_ids) == table

\* DELETE FROM a table WHERE topic_id is one of topic_ids
DeleteRowsOfTopics(table, topic_ids) ==
    [row \in {r \in BagToSet(table) : r.topic_id \notin topic_ids}
        |-> CopiesIn(row, table)]

\* the rows of the three tables without the given topics, modules, subjects
DeleteContent(c, subject_ids, module_ids, topic_ids) ==
    [subjects |-> {x \in c.subjects : x.id \notin subject_ids},
     modules |-> {x \in c.modules : x.id \notin module_ids},
     topics |-> {x \in c.topics : x.id \notin topic_ids}]

\* delete_topic: fetchone()[0] raises TypeError when the topic does not
\* exist, and the except branch rolls back
delete_topic(topic_id) ==
    /\ IF topic_id \in TopicIds(content)
       THEN /\ student_progress' = DeleteRowsOfTopics(student_progress, {topic_id})
            /\ quiz_history' = DeleteRowsOfTopics(quiz_history, {topic_id})
            /\ content' = DeleteContent(content, {}, {}, {topic_id})
            /\ ui' = [ui EXCEPT ![TeacherSession] = ""]
       ELSE /\ ui' = [ui EXCEPT ![TeacherSession] = "TypeError"]
            /\ UNCHANGED <<dbVars, content>>
    /\ UNCHANGED <<session_state, call, policyVars, fileVars, selectVars, scoreVars, pageVars>>

\* delete_module: the module's topics, their progress and history rows, and
\* the module; TypeError and rollback when the module does not exist
delete_module(module_id) ==
    /\ IF module_id \in {m.id : m \in content.modules}
       THEN LET topic_ids == TopicsOfModule(content, module_id)
            IN /\ student_progress' = DeleteRowsOfTopics(student_progress, topic_ids)
               /\ quiz_history' = DeleteRowsOfTopics(quiz_history, topic_ids)
               /\ content' = DeleteContent(content, {}, {module_id}, topic_ids)
               /\ ui' = [ui EXCEPT ![TeacherSession] = ""]
       ELSE /\ ui' = [ui EXCEPT ![TeacherSession] = "TypeError"]
            /\ UNCHANGED <<dbVars, content>>
    /\ UNCHANGED <<session_state, call, policyVars, fileVars, selectVars, scoreVars, pageVars>>

\* delete_subject: PermissionError unless the subject exists and is the
\* teacher's; then the progress and history rows of its topics, its topics,
\* its modules and the subject
delete_subject(subject_id, teacher_id) ==
    /\ IF [id |-> subject_id, teacher_id |-> teacher_id] \in content.subjects
       THEN LET topic_ids == TopicsOfSubject(content, subject_id)
                module_ids == {m.id : m \in {n \in content.modules :
                                                n.subject_id = subject_id}}
            IN /\ student_progress' = DeleteRowsOfTopics(student_progress, topic_ids)
               /\ quiz_history' = DeleteRowsOfTopics(quiz_history, topic_ids)
               /\ content' = DeleteContent(content, {subject_id}, module_ids, topic_ids)
               /\ ui' = [ui EXCEPT ![TeacherSession] = ""]
       ELSE /\ ui' = [ui EXCEPT ![TeacherSession] = "PermissionError"]
            /\ UNCHANGED <<dbVars, content>>
    /\ UNCHANGED <<session_state, call, policyVars, fileVars, selectVars, scoreVars, pageVars>>

\* the outcomes recorded between the deletions: quizzes of one question
ContentTotals == {1}

NextContent ==
    \/ \E student_id \in Students, topic_id \in Topics :
           \E total_questions \in ContentTotals : \E correct_answers \in 0..total_questions :
               ApiUpdate(ApiCaller, student_id, topic_id, correct_answers, total_questions)
    \/ \E topic_id \in Topics : delete_topic(topic_id)
    \/ \E module_id \in {m.id : m \in InitialContent.modules} : delete_module(module_id)
    \/ \E subject \in InitialContent.subjects, teacher \in InitialContent.subjects :
           delete_subject(subject.id, teacher.teacher_id)

SpecContent == Init /\ [][NextContent]_vars

\* the two tables after update_student_progress has run on them
ApplyUpdateTo(db, student_id, topic_id, correct_answers, total_questions) ==
    LET w == WriteProgress(db.progress, db.history,
                 get_student_progress(db.progress, student_id, topic_id),
                 student_id, topic_id, correct_answers, total_questions)
    IN [progress |-> w.progress, history |-> w.history]

\* the rows of a table for one (student, topic), read without the model's
\* WHERE clause
RowsFor(table, student_id, topic_id) ==
    {row \in BagToSet(table) : row.student_id = student_id /\ row.topic_id = topic_id}

Keys == Students \X Topics

\* the outcomes of the quizzes recorded in SpecContent, as <<correct, total>>
Outcomes == {<<ca, tq>> \in (0..1) \X ContentTotals : ca <= tq}

\* C17: in every reachable store, update_student_progress for one (student,
\* topic) leaves the record of every other pair as it is, and two updates
\* for different pairs give the same two tables in either order.
C17_OtherKeysUntouchedAndCommute ==
    LET db == [progress |-> student_progress, history |-> quiz_history]
    IN \A k1 \in Keys, o1 \in Outcomes :
           LET after1 == ApplyUpdateTo(db, k1[1], k1[2], o1[1], o1[2])
           IN \A k2 \in Keys \ {k1} :
                  /\ RowsFor(after1.progress, k2[1], k2[2])
                         = RowsFor(db.progress, k2[1], k2[2])
                  /\ \A o2 \in Outcomes :
                         ApplyUpdateTo(after1, k2[1], k2[2], o2[1], o2[2])
                             = ApplyUpdateTo(
                                   ApplyUpdateTo(db, k2[1], k2[2], o2[1], o2[2]),
                                   k1[1], k1[2], o1[1], o1[2])

\* C17 witness: student 1 on topic 1 and student 2 on topic 1 have each been
\* updated, with different outcomes, and both records are stored.
C17_Witness ==
    /\ HasRecord(student_progress, 1, 1)
    /\ HasRecord(student_progress, 2, 1)
    /\ RecordOf(student_progress, 1, 1).correct_answers = 1
    /\ RecordOf(student_progress, 2, 1).correct_answers = 0
    /\ BagCardinality(quiz_history) = 2

\* every row of a topic outside `gone` is in the table after the step as
\* often as before it, and the step adds no row
KeptOutside(before, after, gone) ==
    /\ \A row \in BagToSet(before) :
           row.topic_id \notin gone => CopiesIn(row, after) = CopiesIn(row, before)
    /\ \A row \in BagToSet(after) : CopiesIn(row, before) = CopiesIn(row, after)

\* C20: a step that deletes topics leaves no student_progress or
\* quiz_history row of a deleted topic and leaves the rows of every other
\* topic as they were; and a record whose topic is not deleted in the step
\* is still stored after the step, whatever the step.
C20_RecordsRemovedOnlyByCascade ==
    [][LET gone == TopicIds(content) \ TopicIds(content')
       IN /\ \A row \in BagToSet(student_progress') \cup BagToSet(quiz_history') :
                 row.topic_id \notin gone
          /\ gone # {} =>
                 /\ KeptOutside(student_progress, student_progress', gone)
                 /\ KeptOutside(quiz_history, quiz_history', gone)
          /\ \A k \in Keys :
                 (k[2] \notin gone /\ RowsFor(student_progress, k[1], k[2]) # {}) =>
                     RowsFor(student_progress', k[1], k[2]) # {}]_vars

\* C20 witness: module 1 has been deleted with its topic 1; no row of topic
\* 1 is left, and the record and the history of topic 2 are still stored.
C20_Witness ==
    /\ 1 \notin TopicIds(content)
    /\ 1 \notin {m.id : m \in content.modules}
    /\ 1 \in {x.id : x \in content.subjects}
    /\ \A row \in BagToSet(student_progress) \cup BagToSet(quiz_history) : row.topic_id = 2
    /\ student_progress # EmptyBag
    /\ quiz_history # EmptyBag

(***************************************************************************)
(* Quiz sessions and records per (student, topic).                         *)
(***************************************************************************)
\* session s holds a generated quiz that is not yet scored
ActiveSession(s) ==
    /\ session_state[s].quiz_started
    /\ session_state[s].current_quiz # None
    /\ session_state[s].current_topic_id # None

\* C18: no two sessions hold an unscored quiz of the same student on the
\* same topic at the same time.
C18_SingleActiveSession ==
    \A s1, s2 \in Sessions :
        (/\ s1 # s2
         /\ ActiveSession(s1) /\ ActiveSession(s2)
         /\ session_state[s1].user = session_state[s2].user) =>
            session_state[s1].current_topic_id # session_state[s2].current_topic_id

\* C19: student_progress holds at most one row for each (student_id,
\* topic_id), whatever the interleaving of the submissions.
C19_OneRecordPerKey ==
    \A k \in Keys :
        BagCardinality(RowsOfKey(student_progress, k[1], k[2], TRUE)) <= 1

\* C19 witness: two submissions for (1, 1) both read that there was no
\* record; the first has inserted the record and the INSERT of the second
\* has been refused.
C19_Witness ==
    /\ \E s \in Sessions : ui[s] = "IntegrityError"
    /\ BagCardinality(RowsOfKey(student_progress, 1, 1, TRUE)) = 1
    /\ InFlight = 0

(***************************************************************************)
(* The update formula, stated on the record before and after one update.   *)
(***************************************************************************)
\* the score an update starts from: the record's, or 0.5 without a record
ScoreBefore == IF p_rec = None THEN Half ELSE Get(p_rec).confidence_score

\* 1/K: 5 (K = 0.2) when there is no prior attempt, 10 (K = 0.1) otherwise
KDivisor == IF p_rec = None THEN 5 ELSE 10

AbsDiff(a, b) == IF a >= b THEN a - b ELSE b - a

\* C22: the score after an update is clamp(s + (ca'/tq' - 0.5) * K, 0, 1),
\* with ca'/tq' the lifetime accuracy that includes the new outcome, s the
\* prior score (0.5 without a record), K = 0.2 without a prior attempt and
\* K = 0.1 otherwise.  In score units (ca'/tq' - 0.5) * K is
\* (2 ca' - tq') * Scale / (2 tq' / K), and the division is exact.
C22_UpdateFormula ==
    [][p_rec' # p_rec =>
           LET new == Get(p_rec')
               numerator == (2 * new.correct_answers - new.total_questions) * Scale
               denominator == 2 * new.total_questions * KDivisor
               raised == ScoreBefore * denominator + numerator
           IN /\ new.total_questions >= 1
              /\ IF raised <= 0 THEN new.confidence_score = 0
                 ELSE IF raised >= Scale * denominator
                      THEN new.confidence_score = Scale
                      ELSE new.confidence_score * denominator = raised]_vars

\* C22 witness: a record after a first attempt of 1 of 2 and a second quiz
\* of 2 of 2: lifetime accuracy 3/4, score 0.5 + 0.25 * 0.1 = 0.525.
C22_Witness ==
    /\ p_rec # None
    /\ Counters(Get(p_rec)) = [attempts |-> 2, total_questions |-> 4, correct_answers |-> 3]
    /\ 40 * Get(p_rec).confidence_score = 21 * Scale

\* C23: one update changes the score by at most K * 0.5: by at most 0.05
\* for an existing record and by at most 0.1 from the 0.5 default.
C23_BoundedStep ==
    [][p_rec' # p_rec =>
           AbsDiff(Get(p_rec').confidence_score, ScoreBefore)
               <= (IF p_rec = None THEN Tenth ELSE Tenth \div 2)]_vars

\* C23 witness: the bound is met: 0.6 after a first attempt with every
\* answer right, then 0.65 after a second quiz with every answer right.
C23_Witness ==
    /\ p_rec # None
    /\ Get(p_rec).attempts = 2
    /\ Get(p_rec).correct_answers = Get(p_rec).total_questions
    /\ Get(p_rec).confidence_score = Half + Tenth + Tenth \div 2

(***************************************************************************)
(* Which option of a question the designated answer names.                 *)
(***************************************************************************)
\* option k is the one the answer designates: the answer is its full text,
\* or the letter of its label
Designated(question, k) ==
    \/ question.options[k] = question.answer
    \/ /\ Labelled(question.options[k])
       /\ question.answer = <<question.options[k][1]>>

DistinctOptions(question) ==
    \A j, k \in 1..4 : j # k => question.options[j] # question.options[k]

\* C30: for a question with four distinct options of which the answer
\* designates exactly one (by its letter or by its full text), none of
\* display_quiz, app.py and app_hf.py scores an option other than the
\* designated one correct, so at most one option is scored correct.
C30_OnlyDesignatedOptionCorrect ==
    (/\ score_case.scored # None
     /\ DistinctOptions(score_case.question)
     /\ Cardinality({k \in 1..4 : Designated(score_case.question, k)}) = 1) =>
        LET scored == Get(score_case.scored)
        IN (scored.display_quiz \/ scored.app \/ scored.app_hf) =>
               Designated(score_case.question, score_case.choice)

(***************************************************************************)
(* The results section of the student page.                                *)
(***************************************************************************)
\* the "Quiz Results" section is rendered: it is the last part of
\* display_quiz, under "if st.session_state.get('quiz_completed')"
ResultsDisplayed(s) == QuizDisplayed(s) /\ session_state[s].quiz_completed

\* C25: once a submission is persisted and the session holds its results,
\* the render that follows displays the score and the per-question results.
C25_ResultsDisplayedAfterSubmit ==
    \A s \in Sessions :
        (/\ call[s].pc = "idle"
         /\ session_state[s].quiz_results
         /\ session_state[s].quiz_completed) => ResultsDisplayed(s)

(***************************************************************************)
(* SpecGen: the Generate Quiz button with every list the generator can     *)
(* return, malformed questions included.                                   *)
(***************************************************************************)
\* a question with three options only
QuestionThreeOptions == [options |-> SubSeq(LabelledOptions, 1, 3), answer |-> <<"B">>]
\* a question whose answer names none of its options
QuestionStrayAnswer == [options |-> LabelledOptions, answer |-> <<"E">>]

AnyQuestions == {QuestionLetter, QuestionThreeOptions, QuestionStrayAnswer}

\* the responses of the generator, with lists of any questions
AnyResponses ==
    {r \in GeneratorResponses : r.kind # "list"}
        \cup {[kind |-> "list", data |-> q] :
                 q \in SeqsUpTo(AnyQuestions, MaxQuizLen) \cup {<<>>}}

NextGen ==
    \E s \in Sessions :
        \/ \E topic_id \in Topics, response \in AnyResponses :
               GenerateQuiz(s, topic_id, response)
        \/ Abandon(s)

SpecGen == Init /\ [][NextGen]_vars

\* four options of which the answer designates exactly one
WellFormed(question) ==
    /\ Len(question.options) = 4
    /\ Cardinality({k \in 1..4 : Designated(question, k)}) = 1

\* C24: a session has a started quiz only when every question of the quiz
\* is well-formed: four options and exactly one designated correct option.
C24_StartedQuizIsWellFormed ==
    \A s \in Sessions :
        QuizDisplayed(s) =>
            \A i \in 1..Len(session_state[s].current_quiz) :
                WellFormed(session_state[s].current_quiz[i])

(***************************************************************************)
(* SpecPage: one student's session on the student page (select a topic,    *)
(* read the progress, generate, submit) while the teacher deletes content. *)
(***************************************************************************)
\* get_student_subject_progress: the student's rows joined with topics and
\* modules, for the modules of one subject
get_student_subject_progress(table, c, student_id, subject_id) ==
    {row \in BagToSet(table) :
        /\ row.student_id = student_id
        /\ row.topic_id \in TopicsOfSubject(c, subject_id)}

\* the topics the two select boxes of a subject's page offer: none when the
\* subject has no topic, and otherwise one of them is always selected
Selectable(c, subject_id) ==
    IF TopicsOfSubject(c, subject_id) = {} THEN {None}
    ELSE {Some(t) : t \in TopicsOfSubject(c, subject_id)}

\* mutant of RenderStudentPage: the 0.5 default is written as a record
RenderStudentPagePersistsDefault(s, subject_id, selected_topic) ==
    LET student_id == session_state[s].user
        progress == IF selected_topic = None THEN None
                    ELSE get_student_progress(student_progress, student_id,
                                              Get(selected_topic))
    IN /\ call[s].pc = "idle"
       /\ selected_topic \in Selectable(content, subject_id)
       /\ page' = [page EXCEPT ![s] =
              [subject_id |-> Some(subject_id),
               topic_id |-> selected_topic,
               progress |-> progress,
               confidence |-> IF selected_topic = None THEN None
                              ELSE IF progress # None
                                   THEN Some(Get(progress).confidence_score)
                                   ELSE Some(Half),
               topics_attempted |-> Cardinality(get_student_subject_progress(
                   student_progress, content, student_id, subject_id))]]
       /\ student_progress' =
              IF selected_topic # None /\ progress = None
              THEN student_progress (+) SetToBag({ProgressRow(student_id, Get(selected_topic),
                       [confidence_score |-> Half, attempts |-> 0,
                        total_questions |-> 0, correct_answers |-> 0])})
              ELSE student_progress
       /\ UNCHANGED <<hf, quiz_history, sessVars, policyVars, fileVars, selectVars, scoreVars, contentVars>>

\* one run of show_student_interface for a subject, with the topic selected
\* in the select boxes: the topic's progress is read for the confidence
\* line (0.5 when there is no record) and the subject's for the summary,
\* of which the page keeps the "Topics Attempted" metric
RenderStudentPage(s, subject_id, selected_topic) ==
    LET student_id == session_state[s].user
        progress == IF selected_topic = None THEN None
                    ELSE get_student_progress(student_progress, student_id,
                                              Get(selected_topic))
    IN /\ call[s].pc = "idle"
       /\ selected_topic \in Selectable(content, subject_id)
       /\ page' = [page EXCEPT ![s] =
              [subject_id |-> Some(subject_id),
               topic_id |-> selected_topic,
               progress |-> progress,
               confidence |-> IF selected_topic = None THEN None
                              ELSE IF progress # None
                                   THEN Some(Get(progress).confidence_score)
                                   ELSE Some(Half),
               topics_attempted |-> Cardinality(get_student_subject_progress(
                   student_progress, content, student_id, subject_id))]]
       /\ UNCHANGED <<hf, dbVars, sessVars, policyVars, fileVars, selectVars, scoreVars, contentVars>>

\* "Generate Quiz" clicked on the rendered page: the button belongs to the
\* selected topic, which the run that handles the click finds in the table
PageGenerateQuiz(s, response) ==
    /\ page[s].topic_id # None
    /\ Get(page[s].topic_id) \in TopicIds(content)
    /\ GenerateQuiz(s, Get(page[s].topic_id), response)

PageStudent == 1

SubjectIds == {x.id : x \in InitialContent.subjects}

NextPage ==
    \/ \E subject_id \in SubjectIds :
           \E selected_topic \in Selectable(content, subject_id) :
               RenderStudentPage(PageStudent, subject_id, selected_topic)
    \/ \E response \in GeneratorResponses : PageGenerateQuiz(PageStudent, response)
    \/ \E choices \in Choices(PageStudent) : SubmitRead(PageStudent, choices)
    \/ SubmitWrite(PageStudent)
    \/ TakeAnotherQuiz(PageStudent)
    \/ Abandon(PageStudent)

SpecPage == Init /\ [][NextPage]_vars

(***************************************************************************)
(* SpecTeach: the student's session takes quizzes on the topics that exist *)
(* while the teacher deletes topics.                                       *)
(***************************************************************************)
NextTeach ==
    \/ \E topic_id \in TopicIds(content), response \in GeneratorResponses :
           GenerateQuiz(PageStudent, topic_id, response)
    \/ \E choices \in Choices(PageStudent) : SubmitRead(PageStudent, choices)
    \/ SubmitWrite(PageStudent)
    \/ TakeAnotherQuiz(PageStudent)
    \/ Abandon(PageStudent)
    \/ \E topic_id \in Topics : delete_topic(topic_id)

SpecTeach == Init /\ [][NextTeach]_vars

\* C21: reading never writes.  Every step of the student's session other
\* than the write half of a submission (a render of the page with its two
\* progress reads, a quiz generation, the read of a submission) leaves
\* student_progress and quiz_history as they were; and a render reports a
\* missing record as absent and shows 0.5 for it, the record still missing
\* after the render.
C21_ReadsNeverWrite ==
    [][call[PageStudent].pc = "idle" =>
           /\ student_progress' = student_progress
           /\ quiz_history' = quiz_history
           /\ (page' # page /\ page'[PageStudent].topic_id # None) =>
                  LET shown == page'[PageStudent]
                      student_id == session_state[PageStudent].user
                      topic_id == Get(shown.topic_id)
                  IN IF HasRecord(student_progress', student_id, topic_id)
                     THEN /\ shown.progress =
                                 Some(RecordOf(student_progress', student_id, topic_id))
                          /\ shown.confidence = Some(Get(shown.progress).confidence_score)
                     ELSE /\ shown.progress = None
                          /\ shown.confidence = Some(Half)]_vars

\* C21 witness: the page shows topic 2 with no record and confidence 0.5
\* next to a summary of one attempted topic, and the tables hold the record
\* of topic 1 and none of topic 2.
C21_Witness ==
    /\ page[PageStudent].topic_id = Some(2)
    /\ page[PageStudent].progress = None
    /\ page[PageStudent].confidence = Some(Half)
    /\ page[PageStudent].topics_attempted = 1
    /\ HasRecord(student_progress, 1, 1)
    /\ ~HasRecord(student_progress, 1, 2)
    /\ BagCardinality(student_progress) = 1

\* the quiz_history rows of a key after the step
HistoryCountAfter(student_id, topic_id) ==
    BagCardinality(RowsOfKey(quiz_history', student_id, topic_id, TRUE))

\* C29: the update of a submission is for the topic the quiz was generated
\* for and for the logged-in student, whatever the student selects between
\* generation and submission: a generation stores the topic selected at
\* that moment with the quiz, the stored topic changes only by a generation
\* (never by a selection), and a completed submission adds one history row for (user, stored topic) and
\* leaves the rows of every other key as they were.
C29_UpdateForGeneratedTopic ==
    [][LET before == session_state[PageStudent]
           after == session_state'[PageStudent]
       IN /\ (after.quiz_started /\ ~before.quiz_started) =>
                 after.current_topic_id = page[PageStudent].topic_id
          /\ (after.current_topic_id # before.current_topic_id
                  /\ after.current_topic_id # None) =>
                 /\ after.quiz_started
                 /\ after.current_topic_id = page[PageStudent].topic_id
                 /\ page'[PageStudent] = page[PageStudent]
          /\ SubmissionCompletes(PageStudent) =>
                 LET topic_id == Get(before.current_topic_id)
                 IN /\ HistoryCountAfter(before.user, topic_id) =
                           HistoryCount(before.user, topic_id) + 1
                    /\ HasRecord(student_progress', before.user, topic_id)
                    /\ \A k \in Keys \ {<<before.user, topic_id>>} :
                           /\ RowsFor(student_progress', k[1], k[2]) =
                                  RowsFor(student_progress, k[1], k[2])
                           /\ RowsFor(quiz_history', k[1], k[2]) =
                                  RowsFor(quiz_history, k[1], k[2])]_vars

\* C29 witness: the quiz was generated for topic 1, topic 2 was selected
\* (and rendered, before the submission: no topic attempted yet) and the
\* submission went to topic 1.
C29_Witness ==
    /\ session_state[PageStudent].quiz_completed
    /\ session_state[PageStudent].current_topic_id = Some(1)
    /\ page[PageStudent].topic_id = Some(2)
    /\ page[PageStudent].topics_attempted = 0
    /\ HistoryCount(1, 1) = 1
    /\ HistoryCount(1, 2) = 0
    /\ HasRecord(student_progress, 1, 1)

\* C27: history and confidence state agree in every state: a key's record
\* has as many attempts as the key has quiz_history rows, its total_questions
\* and correct_answers are the sums of the rows' total_questions and scores,
\* and a key without a record has no quiz_history rows.
C27_HistoryMatchesRecord ==
    \A k \in Keys :
        LET rows == HistoryOfKey(k[1], k[2])
        IN IF HasRecord(student_progress, k[1], k[2])
           THEN LET record == RecordOf(student_progress, k[1], k[2])
                IN /\ record.attempts = HistoryCount(k[1], k[2])
                   /\ record.total_questions = SumField(quiz_history, rows, "total_questions")
                   /\ record.correct_answers = SumField(quiz_history, rows, "score")
           ELSE rows = {}

\* C28: every confidence record refers to a topic that exists.
C28_RecordsReferToTopics ==
    \A row \in BagToSet(student_progress) : row.topic_id \in TopicIds(content)

(***************************************************************************)
(* SpecHf: app_hf.py, whose progress lives in st.session_state.            *)
(***************************************************************************)
\* min(1.0, current_score + 0.1) if is_correct else max(0.0, current_score - 0.1)
HfStepScore(current_score, is_correct) ==
    IF is_correct THEN Min(Scale, current_score + Tenth)
    ELSE Max(0, current_score - Tenth)

\* the Submit Quiz loop from question i on: the topic's score after it
RECURSIVE HfScoreFrom(_, _, _, _)
HfScoreFrom(current_score, quiz, choices, i) ==
    IF i > Len(quiz) THEN current_score
    ELSE HfScoreFrom(HfStepScore(current_score, IsCorrectHf(quiz[i], choices[i])),
                     quiz, choices, i + 1)

\* "Generate Quiz" clicked with selected_topic: generate_quiz_lightweight
\* always returns a quiz (its fallback when the model gives none)
HfGenerateQuiz(selected_topic, quiz) ==
    /\ hf' = [hf EXCEPT !.current_quiz = Some(quiz),
                        !.current_topic = Some(selected_topic),
                        !.scored = 0]
    /\ UNCHANGED <<page, policyVars, dbVars, sessVars, fileVars, selectVars, scoreVars, contentVars>>

\* the Submit Quiz clicks the model follows on one quiz
MaxSubmits == 2

\* "Submit Quiz" clicked: the button is rendered whenever current_quiz is
\* set, and the handler leaves current_quiz as it is
HfSubmitQuiz(choices) ==
    /\ hf.current_quiz # None
    /\ hf.scored < MaxSubmits
    /\ LET quiz == Get(hf.current_quiz)
           topic == Get(hf.current_topic)
           current_score == Get(DictGet(hf.student_progress, topic))
       IN hf' = [hf EXCEPT
              !.student_progress = DictSet(hf.student_progress, topic,
                  HfScoreFrom(current_score, quiz, choices, 1)),
              !.scored = hf.scored + 1]
    /\ UNCHANGED <<page, policyVars, dbVars, sessVars, fileVars, selectVars, scoreVars, contentVars>>

NextHf ==
    \/ \E selected_topic \in SyllabusSet, quiz \in Quizzes :
           HfGenerateQuiz(selected_topic, quiz)
    \/ hf.current_quiz # None /\
           \E choices \in [1..Len(Get(hf.current_quiz)) -> 1..4] : HfSubmitQuiz(choices)

SpecHf == Init /\ [][NextHf]_vars

\* C26: a generated quiz is scored into the confidence state at most once,
\* whatever the sequence of clicks.
C26_QuizScoredAtMostOnce == hf.scored <= 1

====
